---- MODULE Spec2Model ----
(***************************************************************************)
(* State-machine model of the LinkDrop contract (src/src/lib.rs).          *)
(*                                                                         *)
(* The contract state is the four maps of struct LinkDrop.  Every public   *)
(* method is an operator from (state, call context, arguments) to the      *)
(* state it leaves and the promises it creates; a panic leaves the state   *)
(* of the call's entry and creates nothing.  The host is modelled by the   *)
(* access keys of the contract account and the receipts it has not yet     *)
(* executed; it executes them one at a time in any order.                  *)
(*                                                                         *)
(* Spec is the whole contract; SpecLinkdrop leaves out envelope creation;  *)
(* SpecLinkdropFair adds the fairness the host's scheduling provides.      *)
(*                                                                         *)
(* Amounts are scaled: ACCESS_KEY_ALLOWANCE is 2 units instead of 10^24    *)
(* yocto.  Balances are bounded by the token supply, far below 2^128, so   *)
(* u128 arithmetic never wraps on a reachable state.                       *)
(***************************************************************************)
EXTENDS Integers, Sequences, FiniteSets, Bags, TLC

VARIABLES
    accounts,            \* LinkDrop.accounts: Map<PublicKey, Balance>
    red_info,            \* LinkDrop.red_info: Map<RedInfoKey, RedInfo>
    sender_red_info,     \* LinkDrop.sender_red_info: Map<PublicKey, Vec<RedInfoKey>>
    red_receive_record,  \* LinkDrop.red_receive_record
    keys,                \* host: access keys of the contract account -> allowed methods
    pending,             \* host: bag of receipts created by the contract, not yet executed
    run,                 \* history: per credential, the sends since its entry was last absent
    consumed,            \* history: per credential, claimed / debited and not credited since
    last                 \* the call being executed: method, context, outcome, promises

vars == <<accounts, red_info, sender_red_info, red_receive_record,
          keys, pending, run, consumed, last>>

----------------------------------------------------------------------------
(* Bounds of the model *)

MaxDeposit == 3     \* largest attached deposit tried
MaxEscrow == 2      \* largest total held in escrow or in flight
MaxPending == 2     \* largest number of receipts awaiting execution
MaxRedbags == 2     \* largest number of envelopes created

(* Program constants *)

ACCESS_KEY_ALLOWANCE == 2
NO_DEPOSIT == 0

CONTRACT == "linkdrop"
PublicKeys == {"pk1", "pk2"}
RedbagKeys == {"pk2"}          \* the keys envelopes are created for
UserKey == "upk"
NewPublicKey == "npk"
Callers == {"alice"}
AccountIds == {"bob", "XYZ"}
Deposits == ACCESS_KEY_ALLOWANCE..MaxDeposit   \* at the fee (refused by send) and above it
Modes == {1}
Counts == {1}

CLAIM_METHODS == {"claim", "create_account_and_claim"}

\* The public methods of impl LinkDrop.
Methods == {"send", "claim", "create_account_and_claim", "create_account",
            "on_account_created", "on_account_created_and_claimed", "send_redbag",
            "show_claim_info", "show_redbag_info"}

----------------------------------------------------------------------------
(* near_sdk types and collections used by the contract *)

\* json_types::U128: a u128 wrapped for JSON serialisation; into() unwraps it.
U128(n) == [json |-> n]
FromU128(u) == u.json

\* Option<T>: None is <<>>, Some(v) is <<v>>.
None == <<>>
Some(v) == <<v>>
unwrap_or(o, d) == IF o = None THEN d ELSE o[1]

\* collections::Map
MapGet(m, k) == IF k \in DOMAIN m THEN Some(m[k]) ELSE None
MapInsert(m, k, v) == [x \in DOMAIN m \cup {k} |-> IF x = k THEN v ELSE m[x]]
MapRemove(m, k) == [x \in DOMAIN m \ {k} |-> m[x]]
EmptyMap == [x \in {} |-> 0]

\* RedInfoKey::new(): the empty byte vector.
RedInfoKeyNew == <<>>

\* env::is_valid_account_id: "bob" is a valid identifier, "XYZ" is not.
is_valid_account_id(id) == id \in {CONTRACT, "alice", "bob"}

----------------------------------------------------------------------------
(* Promises the contract creates *)

NoCallback == [method |-> "none", predecessor_account_id |-> "", amount |-> U128(0)]

AddAccessKey(receiver, pk, allowance, method_names) ==
    [kind |-> "add_access_key", receiver |-> receiver, public_key |-> pk,
     amount |-> allowance, method_names |-> method_names, callback |-> NoCallback]

DeleteKey(receiver, pk) ==
    [kind |-> "delete_key", receiver |-> receiver, public_key |-> pk,
     amount |-> 0, method_names |-> {}, callback |-> NoCallback]

Transfer(receiver, amount) ==
    [kind |-> "transfer", receiver |-> receiver, public_key |-> "",
     amount |-> amount, method_names |-> {}, callback |-> NoCallback]

\* create_account().add_full_access_key(pk).transfer(amount).then(callback)
CreateAccountThen(receiver, pk, amount, callback) ==
    [kind |-> "create_account", receiver |-> receiver, public_key |-> pk,
     amount |-> amount, method_names |-> {}, callback |-> callback]

----------------------------------------------------------------------------
(* Outcome of a call: the state it leaves and the promises it creates *)

Ok(self, promises, value) ==
    [ok |-> TRUE, err |-> "", self |-> self, promises |-> promises, value |-> value]

\* A panic aborts the call: the state is the state at entry, no promise is created.
Panic(self, msg) ==
    [ok |-> FALSE, err |-> msg, self |-> self, promises |-> <<>>, value |-> FALSE]

\* Variant: the number of promise results is not asserted.
is_promise_success_NoCount(ctx) ==
    [panic |-> FALSE,
     value |-> (Len(ctx.promise_results) >= 1 /\ ctx.promise_results[1] = "Successful")]

is_promise_success(ctx) ==
    IF Len(ctx.promise_results) # 1
    THEN [panic |-> TRUE, value |-> FALSE]
    ELSE [panic |-> FALSE, value |-> (ctx.promise_results[1] = "Successful")]

----------------------------------------------------------------------------
(* The methods of impl LinkDrop *)

\* Variant: the new deposit replaces the balance instead of adding to it.
send_Overwrites(self, ctx, public_key) ==
    IF ~(ctx.attached_deposit > ACCESS_KEY_ALLOWANCE)
    THEN Panic(self, "Attached deposit must be greater than ACCESS_KEY_ALLOWANCE")
    ELSE Ok([self EXCEPT !.accounts =
                MapInsert(@, public_key, ctx.attached_deposit - ACCESS_KEY_ALLOWANCE)],
            <<AddAccessKey(ctx.current_account_id, public_key, ACCESS_KEY_ALLOWANCE,
                           CLAIM_METHODS)>>,
            TRUE)

\* Variant: a deposit equal to the allowance is accepted.
send_AtLeastFee(self, ctx, public_key) ==
    IF ~(ctx.attached_deposit >= ACCESS_KEY_ALLOWANCE)
    THEN Panic(self, "Attached deposit must be greater than ACCESS_KEY_ALLOWANCE")
    ELSE LET value == unwrap_or(MapGet(self.accounts, public_key), 0)
         IN  Ok([self EXCEPT !.accounts =
                    MapInsert(@, public_key,
                              value + ctx.attached_deposit - ACCESS_KEY_ALLOWANCE)],
                <<AddAccessKey(ctx.current_account_id, public_key, ACCESS_KEY_ALLOWANCE,
                               CLAIM_METHODS)>>,
                TRUE)

\* Variant: the key is added with an empty method list.
send_AllMethods(self, ctx, public_key) ==
    IF ~(ctx.attached_deposit > ACCESS_KEY_ALLOWANCE)
    THEN Panic(self, "Attached deposit must be greater than ACCESS_KEY_ALLOWANCE")
    ELSE LET value == unwrap_or(MapGet(self.accounts, public_key), 0)
         IN  Ok([self EXCEPT !.accounts =
                    MapInsert(@, public_key,
                              value + ctx.attached_deposit - ACCESS_KEY_ALLOWANCE)],
                <<AddAccessKey(ctx.current_account_id, public_key, ACCESS_KEY_ALLOWANCE,
                               {})>>,
                TRUE)

send(self, ctx, public_key) ==
    IF ~(ctx.attached_deposit > ACCESS_KEY_ALLOWANCE)
    THEN Panic(self, "Attached deposit must be greater than ACCESS_KEY_ALLOWANCE")
    ELSE LET pk == public_key
             value == unwrap_or(MapGet(self.accounts, pk), 0)
         IN  Ok([self EXCEPT !.accounts =
                    MapInsert(@, pk, value + ctx.attached_deposit - ACCESS_KEY_ALLOWANCE)],
                <<AddAccessKey(ctx.current_account_id, pk, ACCESS_KEY_ALLOWANCE,
                               CLAIM_METHODS)>>,
                TRUE)

\* Variant: the balance is read with get instead of remove.
claim_KeepsEntry(self, ctx, account_id) ==
    IF ctx.predecessor_account_id # ctx.current_account_id
    THEN Panic(self, "Claim only can come from this account")
    ELSE IF ~is_valid_account_id(account_id)
    THEN Panic(self, "Invalid account id")
    ELSE LET found == MapGet(self.accounts, ctx.signer_account_pk)
         IN  IF found = None
             THEN Panic(self, "Unexpected public key")
             ELSE Ok(self,
                     <<DeleteKey(ctx.current_account_id, ctx.signer_account_pk),
                       Transfer(account_id, found[1])>>,
                     TRUE)

\* Variant: the signer key is not deleted.
claim_KeepsKey(self, ctx, account_id) ==
    IF ctx.predecessor_account_id # ctx.current_account_id
    THEN Panic(self, "Claim only can come from this account")
    ELSE IF ~is_valid_account_id(account_id)
    THEN Panic(self, "Invalid account id")
    ELSE LET removed == MapGet(self.accounts, ctx.signer_account_pk)
         IN  IF removed = None
             THEN Panic(self, "Unexpected public key")
             ELSE Ok([self EXCEPT !.accounts = MapRemove(@, ctx.signer_account_pk)],
                     <<Transfer(account_id, removed[1])>>,
                     TRUE)

\* Variant: the predecessor is not checked.
claim_AnyCaller(self, ctx, account_id) ==
    IF ~is_valid_account_id(account_id)
    THEN Panic(self, "Invalid account id")
    ELSE LET removed == MapGet(self.accounts, ctx.signer_account_pk)
         IN  IF removed = None
             THEN Panic(self, "Unexpected public key")
             ELSE Ok([self EXCEPT !.accounts = MapRemove(@, ctx.signer_account_pk)],
                     <<DeleteKey(ctx.current_account_id, ctx.signer_account_pk),
                       Transfer(account_id, removed[1])>>,
                     TRUE)

\* Variant: the account identifier is not validated.
claim_AnyAccountId(self, ctx, account_id) ==
    IF ctx.predecessor_account_id # ctx.current_account_id
    THEN Panic(self, "Claim only can come from this account")
    ELSE LET removed == MapGet(self.accounts, ctx.signer_account_pk)
         IN  IF removed = None
             THEN Panic(self, "Unexpected public key")
             ELSE Ok([self EXCEPT !.accounts = MapRemove(@, ctx.signer_account_pk)],
                     <<DeleteKey(ctx.current_account_id, ctx.signer_account_pk),
                       Transfer(account_id, removed[1])>>,
                     TRUE)

claim(self, ctx, account_id) ==
    IF ctx.predecessor_account_id # ctx.current_account_id
    THEN Panic(self, "Claim only can come from this account")
    ELSE IF ~is_valid_account_id(account_id)
    THEN Panic(self, "Invalid account id")
    ELSE LET removed == MapGet(self.accounts, ctx.signer_account_pk)
         IN  IF removed = None
             THEN Panic(self, "Unexpected public key")
             ELSE LET amount == removed[1]
                  IN  Ok([self EXCEPT !.accounts = MapRemove(@, ctx.signer_account_pk)],
                         <<DeleteKey(ctx.current_account_id, ctx.signer_account_pk),
                           Transfer(account_id, amount)>>,
                         TRUE)

\* Variant: a missing entry counts as a balance of 0 (unwrap_or instead of expect).
create_account_and_claim_NoEntryIsZero(self, ctx, new_account_id, new_public_key) ==
    IF ctx.predecessor_account_id # ctx.current_account_id
    THEN Panic(self, "Create account and claim only can come from this account")
    ELSE IF ~is_valid_account_id(new_account_id)
    THEN Panic(self, "Invalid account id")
    ELSE LET amount == unwrap_or(MapGet(self.accounts, ctx.signer_account_pk), 0)
         IN  Ok([self EXCEPT !.accounts = MapRemove(@, ctx.signer_account_pk)],
                <<CreateAccountThen(new_account_id, new_public_key, amount,
                     [method |-> "on_account_created_and_claimed",
                      predecessor_account_id |-> "",
                      amount |-> U128(amount)])>>,
                TRUE)

\* Variant: the callback is given NO_DEPOSIT as the amount to restore.
create_account_and_claim_NoAmount(self, ctx, new_account_id, new_public_key) ==
    IF ctx.predecessor_account_id # ctx.current_account_id
    THEN Panic(self, "Create account and claim only can come from this account")
    ELSE IF ~is_valid_account_id(new_account_id)
    THEN Panic(self, "Invalid account id")
    ELSE LET removed == MapGet(self.accounts, ctx.signer_account_pk)
         IN  IF removed = None
             THEN Panic(self, "Unexpected public key")
             ELSE Ok([self EXCEPT !.accounts = MapRemove(@, ctx.signer_account_pk)],
                     <<CreateAccountThen(new_account_id, new_public_key, removed[1],
                          [method |-> "on_account_created_and_claimed",
                           predecessor_account_id |-> "",
                           amount |-> U128(NO_DEPOSIT)])>>,
                     TRUE)

\* Variant: the account is created without a callback.
create_account_and_claim_NoCallback(self, ctx, new_account_id, new_public_key) ==
    IF ctx.predecessor_account_id # ctx.current_account_id
    THEN Panic(self, "Create account and claim only can come from this account")
    ELSE IF ~is_valid_account_id(new_account_id)
    THEN Panic(self, "Invalid account id")
    ELSE LET removed == MapGet(self.accounts, ctx.signer_account_pk)
         IN  IF removed = None
             THEN Panic(self, "Unexpected public key")
             ELSE Ok([self EXCEPT !.accounts = MapRemove(@, ctx.signer_account_pk)],
                     <<CreateAccountThen(new_account_id, new_public_key, removed[1],
                                         NoCallback)>>,
                     TRUE)

\* Variant: the balance is read with get instead of remove.
create_account_and_claim_KeepsEntry(self, ctx, new_account_id, new_public_key) ==
    IF ctx.predecessor_account_id # ctx.current_account_id
    THEN Panic(self, "Create account and claim only can come from this account")
    ELSE IF ~is_valid_account_id(new_account_id)
    THEN Panic(self, "Invalid account id")
    ELSE LET found == MapGet(self.accounts, ctx.signer_account_pk)
         IN  IF found = None
             THEN Panic(self, "Unexpected public key")
             ELSE Ok(self,
                     <<CreateAccountThen(new_account_id, new_public_key, found[1],
                          [method |-> "on_account_created_and_claimed",
                           predecessor_account_id |-> "",
                           amount |-> U128(found[1])])>>,
                     TRUE)

create_account_and_claim(self, ctx, new_account_id, new_public_key) ==
    IF ctx.predecessor_account_id # ctx.current_account_id
    THEN Panic(self, "Create account and claim only can come from this account")
    ELSE IF ~is_valid_account_id(new_account_id)
    THEN Panic(self, "Invalid account id")
    ELSE LET removed == MapGet(self.accounts, ctx.signer_account_pk)
         IN  IF removed = None
             THEN Panic(self, "Unexpected public key")
             ELSE LET amount == removed[1]
                  IN  Ok([self EXCEPT !.accounts = MapRemove(@, ctx.signer_account_pk)],
                         <<CreateAccountThen(new_account_id, new_public_key, amount,
                              [method |-> "on_account_created_and_claimed",
                               predecessor_account_id |-> "",
                               amount |-> U128(amount)])>>,
                         TRUE)

\* Variant: the callback is told to refund the new account instead of the caller.
create_account_RefundsNewAccount(self, ctx, new_account_id, new_public_key) ==
    IF ~is_valid_account_id(new_account_id)
    THEN Panic(self, "Invalid account id")
    ELSE Ok(self,
            <<CreateAccountThen(new_account_id, new_public_key, ctx.attached_deposit,
                 [method |-> "on_account_created",
                  predecessor_account_id |-> new_account_id,
                  amount |-> U128(ctx.attached_deposit)])>>,
            TRUE)

create_account(self, ctx, new_account_id, new_public_key) ==
    IF ~is_valid_account_id(new_account_id)
    THEN Panic(self, "Invalid account id")
    ELSE LET amount == ctx.attached_deposit
         IN  Ok(self,
                <<CreateAccountThen(new_account_id, new_public_key, amount,
                     [method |-> "on_account_created",
                      predecessor_account_id |-> ctx.predecessor_account_id,
                      amount |-> U128(amount)])>>,
                TRUE)

on_account_created(self, ctx, predecessor_account_id, amount) ==
    IF ctx.predecessor_account_id # ctx.current_account_id
    THEN Panic(self, "Callback can only be called from the contract")
    ELSE LET res == is_promise_success(ctx)
         IN  IF res.panic
             THEN Panic(self, "Contract expected a result on the callback")
             ELSE LET creation_succeeded == res.value
                  IN  IF ~creation_succeeded
                      THEN Ok(self, <<Transfer(predecessor_account_id, FromU128(amount))>>,
                              creation_succeeded)
                      ELSE Ok(self, <<>>, creation_succeeded)

\* Variant: the two branches are swapped.
on_account_created_and_claimed_Swapped(self, ctx, amount) ==
    IF ctx.predecessor_account_id # ctx.current_account_id
    THEN Panic(self, "Callback can only be called from the contract")
    ELSE LET res == is_promise_success(ctx)
         IN  IF res.panic
             THEN Panic(self, "Contract expected a result on the callback")
             ELSE IF ~res.value
                  THEN Ok(self,
                          <<DeleteKey(ctx.current_account_id, ctx.signer_account_pk)>>,
                          res.value)
                  ELSE Ok([self EXCEPT !.accounts =
                              MapInsert(@, ctx.signer_account_pk, FromU128(amount))],
                          <<>>, res.value)

on_account_created_and_claimed(self, ctx, amount) ==
    IF ctx.predecessor_account_id # ctx.current_account_id
    THEN Panic(self, "Callback can only be called from the contract")
    ELSE LET res == is_promise_success(ctx)
         IN  IF res.panic
             THEN Panic(self, "Contract expected a result on the callback")
             ELSE LET creation_succeeded == res.value
                  IN  IF creation_succeeded
                      THEN Ok(self,
                              <<DeleteKey(ctx.current_account_id, ctx.signer_account_pk)>>,
                              creation_succeeded)
                      ELSE Ok([self EXCEPT !.accounts =
                                  MapInsert(@, ctx.signer_account_pk, FromU128(amount))],
                              <<>>, creation_succeeded)

send_redbag(self, ctx, public_key, count, mode) ==
    IF ~(ctx.attached_deposit > count)
    THEN Panic(self, "Attached deposit must be greater than ACCESS_KEY_ALLOWANCE")
    ELSE LET pk == public_key
             info == [mode |-> mode, count |-> count]
             red_key == RedInfoKeyNew
             sender_red_info_vec ==
                 Append(unwrap_or(MapGet(self.sender_red_info, pk), <<>>), red_key)
         IN  Ok([self EXCEPT !.red_info = MapInsert(@, red_key, info),
                             !.sender_red_info = MapInsert(@, pk, sender_red_info_vec)],
                <<AddAccessKey(ctx.current_account_id, pk, ACCESS_KEY_ALLOWANCE, {})>>,
                TRUE)

----------------------------------------------------------------------------
(* Call contexts (VMContext) *)

Context(predecessor, signer_pk, deposit, results) ==
    [current_account_id |-> CONTRACT,
     predecessor_account_id |-> predecessor,
     signer_account_pk |-> signer_pk,
     attached_deposit |-> deposit,
     promise_results |-> results]

\* An access key whose method list is empty allows every method of the receiver.
MethodAllowed(method_names, method) == method_names = {} \/ method \in method_names

\* A transaction reaches `method` either from another account, signed with any key
\* and carrying any deposit, or under the contract's own identity, signed with one of
\* the function-call access keys of the contract account that allow the method; such
\* a key cannot attach a deposit.  Neither carries a promise result.
TxContexts(method, signers, deposits) ==
    {Context(a, k, d, <<>>) : a \in Callers, k \in signers, d \in deposits}
    \cup {Context(CONTRACT, k, NO_DEPOSIT, <<>>) :
             k \in {x \in DOMAIN keys : MethodAllowed(keys[x], method)}}

\* A callback method can also be named as the callback of a promise of another
\* contract: the predecessor is that contract and one result is delivered.
ForeignCallbackContexts(signers) ==
    {Context(a, k, NO_DEPOSIT, <<r>>) :
        a \in Callers, k \in signers, r \in {"Successful", "Failed"}}

Self == [accounts |-> accounts, red_info |-> red_info,
         sender_red_info |-> sender_red_info,
         red_receive_record |-> red_receive_record]

----------------------------------------------------------------------------
(* Host: receipts of the contract's promises *)

\* A receipt carries the promise and, for the callback it schedules, the context of
\* the call that created it: its signer key (which the callback sees as
\* signer_account_pk), its caller, its attached deposit and the escrow balance the
\* signer key held when the call started.  credited records what has put a balance
\* under the signer key since: "none", "restored" (the callback of another failed
\* account creation) or "sent" (a send).
Receipt(p, ctx, self) ==
    IF p.kind = "create_account"
    THEN [promise |-> p, signer_pk |-> ctx.signer_account_pk,
          caller |-> ctx.predecessor_account_id,
          attached |-> ctx.attached_deposit,
          balance |-> unwrap_or(MapGet(self.accounts, ctx.signer_account_pk), 0),
          credited |-> "none"]
    ELSE [promise |-> p, signer_pk |-> "", caller |-> "", attached |-> 0, balance |-> 0,
          credited |-> "none"]

\* Transfers to existing accounts are executed without further effect on the
\* contract; the other promises wait for the host.
Queued(promises) == SelectSeq(promises, LAMBDA p : p.kind # "transfer")

RECURSIVE SeqToBag(_)
SeqToBag(q) == IF q = <<>> THEN EmptyBag ELSE SetToBag({Head(q)}) (+) SeqToBag(Tail(q))

Schedule(promises, ctx, self) ==
    pending (+) SeqToBag([i \in 1..Len(Queued(promises)) |->
                             Receipt(Queued(promises)[i], ctx, self)])

RECURSIVE SumOver(_, _)
SumOver(f, S) == IF S = {} THEN 0
                 ELSE LET x == CHOOSE y \in S : TRUE IN f[x] + SumOver(f, S \ {x})

IsClaimReceipt(e) ==
    /\ e.promise.kind = "create_account"
    /\ e.promise.callback.method = "on_account_created_and_claimed"

InFlight == {e \in BagToSet(pending) : IsClaimReceipt(e)}

\* The receipts of the claims in flight on credential pk learn that a balance was
\* put under pk: how == "sent" by a send, how == "restored" by a callback.
Credited(bag, pk, how) ==
    LET M(e) == IF IsClaimReceipt(e) /\ e.signer_pk = pk
                   /\ (how = "sent" \/ e.credited = "none")
                THEN [e EXCEPT !.credited = how] ELSE e
        from(x) == {e \in BagToSet(bag) : M(e) = x}
    IN  [x \in {M(e) : e \in BagToSet(bag)} |->
            SumOver([e \in from(x) |-> bag[e]], from(x))]

\* Value held for claimants: escrow balances plus the amounts of claims in flight.
Escrowed == SumOver(accounts, DOMAIN accounts)
            + SumOver([e \in InFlight |-> e.promise.amount * CopiesIn(e, pending)], InFlight)

\* What a call did: its method, context and argument, the maps at its entry, whether
\* it returned or panicked, the promises it created and the value it returned.
Record(op, ctx, arg, receipt, r) ==
    [op |-> op, ctx |-> ctx, arg |-> arg, receipt |-> receipt, before |-> Self,
     ok |-> r.ok, err |-> r.err, promises |-> r.promises, value |-> r.value]

\* The receipt field of a call that no receipt of the contract scheduled.
NoReceipt ==
    [promise |-> Transfer("", 0), signer_pk |-> "", caller |-> "", attached |-> 0,
     balance |-> 0, credited |-> "none"]

NoCall ==
    [op |-> "none", ctx |-> Context(CONTRACT, "", 0, <<>>), arg |-> "",
     receipt |-> NoReceipt,
     before |-> [accounts |-> EmptyMap, red_info |-> EmptyMap,
                 sender_red_info |-> EmptyMap, red_receive_record |-> EmptyMap],
     ok |-> TRUE, err |-> "", promises |-> <<>>, value |-> TRUE]

\* Calls are serialized: one starts only when the previous one has returned.
Idle == last = NoCall

\* The call's outcome is committed: the maps it leaves and the promises it created.
\* pk names the credential the call put a balance under ("" when it put none).
CommitCredit(r, ctx, pk, how) ==
    /\ Idle
    /\ BagCardinality(pending) + Len(Queued(r.promises)) <= MaxPending
    /\ accounts' = r.self.accounts
    /\ red_info' = r.self.red_info
    /\ sender_red_info' = r.self.sender_red_info
    /\ red_receive_record' = r.self.red_receive_record
    /\ pending' = Credited(Schedule(r.promises, ctx, Self), pk, how)

Commit(r, ctx) == CommitCredit(r, ctx, "", "none")

----------------------------------------------------------------------------
(* History of each credential *)

NoRun == [n |-> 0, sum |-> 0]

\* claimed: a claim paid the credential out and no send credited it since.
\* removed: a claim or create_account_and_claim removed its entry and neither a send
\* nor a restoring callback has put one back since.
Fresh == [claimed |-> FALSE, removed |-> FALSE]

\* A send starts a run on a credential with no entry and extends a run in progress.
RunAfterSend(pk, deposit) ==
    IF pk \notin DOMAIN accounts THEN [n |-> 1, sum |-> deposit]
    ELSE IF run[pk].n > 0 THEN [n |-> run[pk].n + 1, sum |-> run[pk].sum + deposit]
    ELSE NoRun

----------------------------------------------------------------------------
(* Initial state: LinkDrop::default(), no linkdrop key on the account *)

Init ==
    /\ accounts = EmptyMap
    /\ red_info = EmptyMap
    /\ sender_red_info = EmptyMap
    /\ red_receive_record = EmptyMap
    /\ keys = EmptyMap
    /\ pending = EmptyBag
    /\ run = [pk \in PublicKeys |-> NoRun]
    /\ consumed = [pk \in PublicKeys |-> Fresh]
    /\ last = NoCall

----------------------------------------------------------------------------
(* Transactions *)

Send(ctx, public_key) ==
    LET r == send(Self, ctx, public_key)
    IN  /\ CommitCredit(r, ctx, IF r.ok THEN public_key ELSE "", "sent")
        /\ Escrowed' <= MaxEscrow
        /\ last' = Record("send", ctx, public_key, NoReceipt, r)
        /\ run' = IF r.ok THEN [run EXCEPT ![public_key] =
                                    RunAfterSend(public_key, ctx.attached_deposit)]
                  ELSE run
        /\ consumed' = IF r.ok THEN [consumed EXCEPT ![public_key] = Fresh] ELSE consumed
        /\ UNCHANGED keys

Claim(ctx, account_id) ==
    LET r == claim(Self, ctx, account_id)
        pk == ctx.signer_account_pk
    IN  /\ Commit(r, ctx)
        /\ last' = Record("claim", ctx, account_id, NoReceipt, r)
        /\ run' = IF r.ok /\ pk \in PublicKeys THEN [run EXCEPT ![pk] = NoRun] ELSE run
        /\ consumed' = IF r.ok /\ pk \in PublicKeys
                       THEN [consumed EXCEPT ![pk] = [claimed |-> TRUE, removed |-> TRUE]]
                       ELSE consumed
        /\ UNCHANGED keys

CreateAccountAndClaim(ctx, new_account_id) ==
    LET r == create_account_and_claim(Self, ctx, new_account_id, NewPublicKey)
        pk == ctx.signer_account_pk
    IN  /\ Commit(r, ctx)
        /\ last' = Record("create_account_and_claim", ctx, new_account_id, NoReceipt, r)
        /\ run' = IF r.ok /\ pk \in PublicKeys THEN [run EXCEPT ![pk] = NoRun] ELSE run
        /\ consumed' = IF r.ok /\ pk \in PublicKeys
                       THEN [consumed EXCEPT ![pk].removed = TRUE] ELSE consumed
        /\ UNCHANGED keys

CreateAccount(ctx, new_account_id) ==
    LET r == create_account(Self, ctx, new_account_id, NewPublicKey)
    IN  /\ Commit(r, ctx)
        /\ last' = Record("create_account", ctx, new_account_id, NoReceipt, r)
        /\ UNCHANGED <<keys, run, consumed>>

SendRedbag(ctx, public_key, count, mode) ==
    LET r == send_redbag(Self, ctx, public_key, count, mode)
    IN  /\ Commit(r, ctx)
        /\ SumOver([pk \in DOMAIN sender_red_info' |-> Len(sender_red_info'[pk])],
                   DOMAIN sender_red_info') <= MaxRedbags
        /\ last' = Record("send_redbag", ctx, public_key, NoReceipt, r)
        /\ UNCHANGED <<keys, run, consumed>>

----------------------------------------------------------------------------
(* Callbacks *)

\* The common effect of a call of on_account_created_and_claimed.
AfterCreatedAndClaimed(r, ctx) ==
    LET pk == ctx.signer_account_pk
    IN  /\ run' = IF r.ok /\ ~r.value /\ pk \in PublicKeys
                  THEN [run EXCEPT ![pk] = NoRun] ELSE run
        /\ consumed' = IF r.ok /\ ~r.value /\ pk \in PublicKeys
                       THEN [consumed EXCEPT ![pk].removed = FALSE] ELSE consumed

\* The host delivers the outcome of the account creation to the callback the
\* receipt names, under the contract's identity and with the signer of the
\* transaction that created the receipt.
HostOnAccountCreated(e, outcome) ==
    /\ Idle
    /\ e \in BagToSet(pending)
    /\ e.promise.kind = "create_account"
    /\ e.promise.callback.method = "on_account_created"
    /\ LET ctx == Context(CONTRACT, e.signer_pk, NO_DEPOSIT, <<outcome>>)
           cb == e.promise.callback
           r == on_account_created(Self, ctx, cb.predecessor_account_id, cb.amount)
       IN  /\ accounts' = r.self.accounts
           /\ red_info' = r.self.red_info
           /\ sender_red_info' = r.self.sender_red_info
           /\ red_receive_record' = r.self.red_receive_record
           /\ pending' = (pending (-) SetToBag({e}))
                         (+) SeqToBag([i \in 1..Len(Queued(r.promises)) |->
                                          Receipt(Queued(r.promises)[i], ctx, Self)])
           /\ last' = Record("on_account_created", ctx, "", e, r)
    /\ UNCHANGED <<keys, run, consumed>>

HostOnAccountCreatedAndClaimed(e, outcome) ==
    /\ Idle
    /\ e \in BagToSet(pending)
    /\ e.promise.kind = "create_account"
    /\ e.promise.callback.method = "on_account_created_and_claimed"
    /\ LET ctx == Context(CONTRACT, e.signer_pk, NO_DEPOSIT, <<outcome>>)
           cb == e.promise.callback
           r == on_account_created_and_claimed(Self, ctx, cb.amount)
       IN  /\ accounts' = r.self.accounts
           /\ red_info' = r.self.red_info
           /\ sender_red_info' = r.self.sender_red_info
           /\ red_receive_record' = r.self.red_receive_record
           /\ pending' = Credited((pending (-) SetToBag({e}))
                                  (+) SeqToBag([i \in 1..Len(Queued(r.promises)) |->
                                                   Receipt(Queued(r.promises)[i], ctx, Self)]),
                                  IF r.ok /\ ~r.value THEN e.signer_pk ELSE "", "restored")
           /\ last' = Record("on_account_created_and_claimed", ctx, "", e, r)
           /\ AfterCreatedAndClaimed(r, ctx)
    /\ UNCHANGED keys

\* The callbacks are public methods: any transaction or foreign promise can name them.
CallOnAccountCreated(ctx, predecessor_account_id, amount) ==
    LET r == on_account_created(Self, ctx, predecessor_account_id, U128(amount))
    IN  /\ Commit(r, ctx)
        /\ last' = Record("on_account_created", ctx, predecessor_account_id, NoReceipt, r)
        /\ UNCHANGED <<keys, run, consumed>>

CallOnAccountCreatedAndClaimed(ctx, amount) ==
    LET r == on_account_created_and_claimed(Self, ctx, U128(amount))
    IN  /\ CommitCredit(r, ctx, IF r.ok /\ ~r.value THEN ctx.signer_account_pk ELSE "",
                        "restored")
        /\ Escrowed' <= MaxEscrow
        /\ last' = Record("on_account_created_and_claimed", ctx, "", NoReceipt, r)
        /\ AfterCreatedAndClaimed(r, ctx)
        /\ UNCHANGED keys

----------------------------------------------------------------------------
(* Host: execution of key receipts on the contract account *)

\* AddKey fails when the account already has the key; the key then keeps its scope.
HostAddKey(e) ==
    /\ Idle
    /\ e \in BagToSet(pending)
    /\ e.promise.kind = "add_access_key"
    /\ keys' = IF e.promise.public_key \in DOMAIN keys THEN keys
               ELSE MapInsert(keys, e.promise.public_key, e.promise.method_names)
    /\ pending' = pending (-) SetToBag({e})
    /\ UNCHANGED <<last, accounts, red_info, sender_red_info, red_receive_record, run, consumed>>

\* DeleteKey fails when the account does not have the key.
HostDeleteKey(e) ==
    /\ Idle
    /\ e \in BagToSet(pending)
    /\ e.promise.kind = "delete_key"
    /\ keys' = MapRemove(keys, e.promise.public_key)
    /\ pending' = pending (-) SetToBag({e})
    /\ UNCHANGED <<last, accounts, red_info, sender_red_info, red_receive_record, run, consumed>>

\* The call returns: its outcome is final and the next call can start.
Return ==
    /\ ~Idle
    /\ last' = NoCall
    /\ UNCHANGED <<accounts, red_info, sender_red_info, red_receive_record,
                   keys, pending, run, consumed>>

----------------------------------------------------------------------------

\* The linkdrop surface: send, the two claims, create_account and their callbacks.
LinkdropNext ==
    \/ \E pk \in PublicKeys : \E ctx \in TxContexts("send", {UserKey}, Deposits) :
          Send(ctx, pk)
    \/ \E id \in AccountIds : \E ctx \in TxContexts("claim", PublicKeys, {NO_DEPOSIT}) :
          Claim(ctx, id)
    \/ \E id \in AccountIds :
       \E ctx \in TxContexts("create_account_and_claim", PublicKeys, {NO_DEPOSIT}) :
          CreateAccountAndClaim(ctx, id)
    \/ \E id \in AccountIds : \E ctx \in TxContexts("create_account", {UserKey}, {MaxDeposit}) :
          CreateAccount(ctx, id)
    \/ \E e \in BagToSet(pending), outcome \in {"Successful", "Failed"} :
          HostOnAccountCreated(e, outcome)
    \/ \E e \in BagToSet(pending), outcome \in {"Successful", "Failed"} :
          HostOnAccountCreatedAndClaimed(e, outcome)
    \/ \E payer \in Callers, amount \in {1} :
       \E ctx \in TxContexts("on_account_created", {UserKey}, {NO_DEPOSIT})
                  \cup ForeignCallbackContexts({UserKey}) :
          CallOnAccountCreated(ctx, payer, amount)
    \/ \E amount \in {1} :
       \E ctx \in TxContexts("on_account_created_and_claimed", {UserKey}, {NO_DEPOSIT})
                  \cup ForeignCallbackContexts(PublicKeys) :
          CallOnAccountCreatedAndClaimed(ctx, amount)
    \/ \E e \in BagToSet(pending) : HostAddKey(e)
    \/ \E e \in BagToSet(pending) : HostDeleteKey(e)
    \/ Return

\* The whole contract: the linkdrop surface and envelope creation.
Next ==
    \/ LinkdropNext
    \/ \E pk \in RedbagKeys, count \in Counts, mode \in Modes :
       \E ctx \in TxContexts("send_redbag", {UserKey}, Deposits) :
          SendRedbag(ctx, pk, count, mode)

Spec == Init /\ [][Next]_vars

\* The linkdrop surface alone: no envelope is ever created.
SpecLinkdrop == Init /\ [][LinkdropNext]_vars

\* The host delivers the outcome of a create_account_and_claim signed with pk for
\* the given amount.
DeliverClaim(pk, amount) ==
    \E e \in BagToSet(pending), outcome \in {"Successful", "Failed"} :
        /\ e.signer_pk = pk
        /\ e.promise.amount = amount
        /\ HostOnAccountCreatedAndClaimed(e, outcome)

\* Every call runs to its end, and the host executes every callback receipt: a
\* receipt that can be delivered again and again is delivered.
SpecLinkdropFair ==
    /\ SpecLinkdrop
    /\ WF_vars(Return)
    /\ \A pk \in PublicKeys, amount \in 1..MaxEscrow : SF_vars(DeliverClaim(pk, amount))

----------------------------------------------------------------------------
(* Properties *)

HostDelivered == last.receipt # NoReceipt
Signer == last.ctx.signer_account_pk
ClaimCall == last.op \in {"claim", "create_account_and_claim"}
CallbackCall == last.op \in {"on_account_created", "on_account_created_and_claimed"}

\* The call in `last` panicked: no map changed and no promise was created.
Aborted == ~last.ok /\ Self = last.before /\ last.promises = <<>>

\* C1: after n >= 1 successful sends to a credential that had no entry, with
\* deposits d1..dn and no claim on it in between (neither phase of one: no claim,
\* no create_account_and_claim and no callback restoring its balance), its escrow
\* balance is d1 + ... + dn - n * ACCESS_KEY_ALLOWANCE.
C1_SendAccumulates ==
    \A pk \in PublicKeys :
        run[pk].n >= 1 =>
            /\ pk \in DOMAIN accounts
            /\ accounts[pk] = run[pk].sum - run[pk].n * ACCESS_KEY_ALLOWANCE

C1_Witness ==
    /\ last.op = "send" /\ last.ok
    /\ run[last.arg].n = 2
    /\ accounts[last.arg] = run[last.arg].sum - 2 * ACCESS_KEY_ALLOWANCE

\* C2 (as stated): once a claim on a credential succeeded, no claim or
\* create_account_and_claim presenting it succeeds until a send credits it again.
C2_Original ==
    [][\A pk \in PublicKeys :
          (Idle /\ ClaimCall' /\ last'.ok /\ Signer' = pk) => ~consumed[pk].claimed]_vars

\* C2 (amended): once a claim or create_account_and_claim on a credential
\* succeeded, no claim or create_account_and_claim presenting it succeeds, and none
\* creates a promise, until a send credits it or a callback of a failed account
\* creation restores its balance.
C2_PaidOnce ==
    [][\A pk \in PublicKeys :
          (Idle /\ ClaimCall' /\ Signer' = pk /\ consumed[pk].removed)
              => (~last'.ok /\ last'.promises = <<>> /\ accounts' = accounts)]_vars

C2_Witness ==
    /\ ClaimCall /\ ~last.ok /\ last.err = "Unexpected public key"
    /\ Signer \in PublicKeys /\ consumed[Signer].claimed /\ consumed[Signer].removed

\* C3: a successful claim removes exactly the entry of the signer key, transfers the
\* balance the entry held to the destination account and deletes the signer key
\* from the contract account.
C3_ClaimPaysFullBalance ==
    (last.op = "claim" /\ last.ok) =>
        /\ Signer \in DOMAIN last.before.accounts
        /\ accounts = MapRemove(last.before.accounts, Signer)
        /\ red_info = last.before.red_info
        /\ sender_red_info = last.before.sender_red_info
        /\ last.promises = <<DeleteKey(CONTRACT, Signer),
                             Transfer(last.arg, last.before.accounts[Signer])>>

C3_Witness ==
    /\ last.op = "claim" /\ last.ok /\ last.arg = "bob"
    /\ run[Signer] = NoRun
    /\ last.before.accounts[Signer] = MaxDeposit - ACCESS_KEY_ALLOWANCE
    /\ Signer \notin DOMAIN accounts

\* C4: when the host reports that the account creation of a
\* create_account_and_claim failed, the callback leaves under the signer key the
\* balance that key held when create_account_and_claim started, and touches no
\* other entry.
C4_CompensationRoundTrip ==
    (last.op = "on_account_created_and_claimed" /\ HostDelivered
        /\ last.ctx.promise_results = <<"Failed">>) =>
        /\ last.ok
        /\ Signer = last.receipt.signer_pk
        /\ accounts = MapInsert(last.before.accounts, Signer, last.receipt.balance)
        /\ last.promises = <<>>

C4_Witness ==
    /\ last.op = "on_account_created_and_claimed" /\ HostDelivered
    /\ last.ctx.promise_results = <<"Failed">>
    /\ Signer \notin DOMAIN last.before.accounts
    /\ accounts[Signer] = last.receipt.balance
    /\ last.receipt.balance > 0

\* C5: claim and create_account_and_claim signed with a key that has no escrow
\* entry panic: no map changes and no promise is created.
C5_UnknownCredentialAborts ==
    (ClaimCall /\ Signer \notin DOMAIN last.before.accounts) => Aborted

C5_Witness ==
    /\ ClaimCall /\ last.err = "Unexpected public key"
    /\ last.ctx.predecessor_account_id = CONTRACT
    /\ DOMAIN accounts # {}

\* C6: claim and create_account_and_claim called by any account other than the
\* contract itself panic, whatever balance the signer key holds: no map changes and
\* no promise is created.
C6_ForeignCallerAborts ==
    (ClaimCall /\ last.ctx.predecessor_account_id # last.ctx.current_account_id)
        => (Aborted /\ last.err \in
                {"Claim only can come from this account",
                 "Create account and claim only can come from this account"})

C6_Witness ==
    /\ ClaimCall /\ ~last.ok
    /\ last.ctx.predecessor_account_id = "alice"
    /\ Signer \in DOMAIN accounts
    /\ is_valid_account_id(last.arg)

\* C7: a callback that is not called by the contract itself with exactly one
\* promise result panics: no map changes and no promise is created.
C7_CallbackOnlyFromHost ==
    (CallbackCall /\ ~(/\ last.ctx.predecessor_account_id = last.ctx.current_account_id
                       /\ Len(last.ctx.promise_results) = 1))
        => Aborted

\* A direct call under the contract's own identity, carrying no promise result.
C7_Witness ==
    /\ CallbackCall /\ ~last.ok
    /\ last.ctx.predecessor_account_id = CONTRACT
    /\ last.ctx.promise_results = <<>>

\* C8: the callback of create_account changes no map; when the account creation
\* failed it transfers the deposit attached to create_account to the account that
\* called create_account, and when it succeeded it creates no promise.
C8_RefundToPayer ==
    (last.op = "on_account_created" /\ HostDelivered) =>
        /\ last.ok
        /\ Self = last.before
        /\ last.promises =
              IF last.ctx.promise_results = <<"Failed">>
              THEN <<Transfer(last.receipt.caller, last.receipt.attached)>>
              ELSE <<>>

C8_Witness ==
    /\ last.op = "on_account_created" /\ HostDelivered
    /\ last.ctx.promise_results = <<"Failed">>
    /\ last.receipt.caller = "alice"
    /\ last.receipt.promise.receiver = "bob"
    /\ last.promises = <<Transfer("alice", MaxDeposit)>>

\* C9: when the host reports that the account creation of a
\* create_account_and_claim succeeded, the callback deletes the signer key of that
\* call from the contract account and changes no map.
C9_SuccessRevokesKey ==
    (last.op = "on_account_created_and_claimed" /\ HostDelivered
        /\ last.ctx.promise_results = <<"Successful">>) =>
        /\ last.ok
        /\ Self = last.before
        /\ last.promises = <<DeleteKey(CONTRACT, last.receipt.signer_pk)>>

C9_Witness ==
    /\ last.op = "on_account_created_and_claimed" /\ HostDelivered
    /\ last.ctx.promise_results = <<"Successful">>
    /\ last.receipt.signer_pk \notin DOMAIN accounts
    /\ last.promises = <<DeleteKey(CONTRACT, last.receipt.signer_pk)>>

\* C10: send with a deposit that is not greater than ACCESS_KEY_ALLOWANCE panics:
\* no map changes and no key is added.
C10_SendNeedsMoreThanFee ==
    (last.op = "send" /\ last.ctx.attached_deposit <= ACCESS_KEY_ALLOWANCE) => Aborted

C10_Witness ==
    /\ last.op = "send" /\ ~last.ok
    /\ last.ctx.attached_deposit = ACCESS_KEY_ALLOWANCE
    /\ last.arg \in DOMAIN accounts

\* C11: claim, create_account_and_claim and create_account called with an invalid
\* account identifier panic: no map changes, so the entry of the signer key keeps
\* its balance, and no promise is created.
C11_InvalidAccountIdAborts ==
    (last.op \in {"claim", "create_account_and_claim", "create_account"}
        /\ ~is_valid_account_id(last.arg))
        => (Aborted /\ (last.ctx.predecessor_account_id = last.ctx.current_account_id
                           => last.err = "Invalid account id"))

\* The holder of a funded credential claims to an invalid account.
C11_Witness ==
    /\ last.op = "claim" /\ last.err = "Invalid account id"
    /\ last.ctx.predecessor_account_id = CONTRACT
    /\ Signer \in DOMAIN last.before.accounts
    /\ Signer \in DOMAIN accounts
    /\ accounts[Signer] = last.before.accounts[Signer]

\* C12: send_redbag for a key that already has an envelope panics: the envelope
\* record and the index of the key stay as they were and no key is added.
C12_AlreadyExists ==
    (last.op = "send_redbag" /\ last.arg \in DOMAIN last.before.sender_red_info)
        => Aborted

\* C13: send_redbag with a deposit that is not greater than ACCESS_KEY_ALLOWANCE
\* panics: no envelope record and no index entry is written and no key is added.
C13_RedbagNeedsMoreThanFee ==
    (last.op = "send_redbag" /\ last.ctx.attached_deposit <= ACCESS_KEY_ALLOWANCE)
        => Aborted

\* A call made with one of the contract account's own access keys.
OwnKeyCall ==
    /\ last.op # "none" /\ ~HostDelivered
    /\ last.ctx.predecessor_account_id = CONTRACT
    /\ last.ctx.promise_results = <<>>

\* C14: an access key of the contract account that was never passed to a successful
\* send_redbag allows claim and create_account_and_claim and no other method, and
\* every call made with such a key is a call of one of the two.
C14_LinkdropKeyScope ==
    /\ \A pk \in DOMAIN keys \ DOMAIN sender_red_info :
          \A m \in Methods : MethodAllowed(keys[pk], m) => m \in CLAIM_METHODS
    /\ (OwnKeyCall /\ Signer \notin DOMAIN last.before.sender_red_info)
          => last.op \in CLAIM_METHODS

\* The linkdrop key next to an envelope key of a wider scope.
C14_Witness ==
    /\ "pk1" \in DOMAIN keys /\ keys["pk1"] = CLAIM_METHODS
    /\ "pk1" \in DOMAIN accounts
    /\ "pk2" \in DOMAIN keys /\ keys["pk2"] # CLAIM_METHODS

\* The envelope claim methods the key of an envelope is meant to be scoped to.
ENVELOPE_METHODS == {"create_account_and_claim", "claim", "revoke"}

\* C15: an access key of the contract account that was passed to send_redbag allows
\* the envelope claim methods and no other method.
C15_RedbagKeyScope ==
    \A pk \in DOMAIN keys \cap DOMAIN sender_red_info :
        \A m \in Methods : MethodAllowed(keys[pk], m) => m \in ENVELOPE_METHODS

\* C16 (as stated): while a create_account_and_claim on a credential is in flight
\* and no send has credited the credential since that call, the credential has no
\* escrow entry.
C16_Original ==
    \A e \in InFlight : e.credited # "sent" => e.signer_pk \notin DOMAIN accounts

\* C16 (amended): while a create_account_and_claim on a credential is in flight and
\* neither a send nor the callback of another failed account creation has put a
\* balance under the credential since that call, the credential has no escrow
\* entry, and no claim or create_account_and_claim presenting it succeeds: after a
\* successful one, the only such call in flight is the one it has just started.
C16_InFlightWindow ==
    /\ \A e \in InFlight : e.credited = "none" => e.signer_pk \notin DOMAIN accounts
    /\ (ClaimCall /\ last.ok) =>
          \A e \in InFlight :
              (e.signer_pk = Signer /\ e.credited = "none") =>
                  /\ last.op = "create_account_and_claim"
                  /\ CopiesIn(e, pending) = 1
                  /\ e.promise.amount = last.before.accounts[Signer]

\* A second claim during the window is refused.
C16_Witness ==
    /\ ClaimCall /\ last.err = "Unexpected public key"
    /\ \E e \in InFlight : e.signer_pk = Signer /\ e.credited = "none"

\* A create_account_and_claim signed with pk has just debited amount.
ClaimStarted(pk, amount) ==
    /\ last.op = "create_account_and_claim" /\ last.ok
    /\ Signer = pk
    /\ unwrap_or(MapGet(last.before.accounts, pk), 0) = amount

\* The host has just delivered the outcome of such a call to the callback, which
\* consumed the credential (success: its key is deleted, no entry is written) or
\* restored the amount (failure).
ClaimSettled(pk, amount) ==
    /\ last.op = "on_account_created_and_claimed" /\ HostDelivered /\ last.ok
    /\ last.receipt.signer_pk = pk
    /\ last.receipt.promise.amount = amount
    /\ \/ /\ last.ctx.promise_results = <<"Successful">>
          /\ last.promises = <<DeleteKey(CONTRACT, pk)>>
          /\ Self = last.before
       \/ /\ last.ctx.promise_results = <<"Failed">>
          /\ last.promises = <<>>
          /\ accounts = MapInsert(last.before.accounts, pk, amount)

\* The number of create_account_and_claim calls signed with pk for amount in flight.
FlightCount(pk, amount, bag) ==
    LET flying == {e \in BagToSet(bag) :
                      IsClaimReceipt(e) /\ e.signer_pk = pk /\ e.promise.amount = amount}
    IN  SumOver([e \in flying |-> bag[e]], flying)

\* C17: every successful create_account_and_claim puts one claim in flight and
\* every execution of its callback by the host takes one out, and nothing else
\* does; under fair scheduling every successful create_account_and_claim is
\* followed by such an execution, which consumes the credential or restores the
\* amount.
C17_CallbackEventuallyRuns ==
    /\ [][\A pk \in PublicKeys, amount \in 1..MaxEscrow :
             FlightCount(pk, amount, pending') =
                 FlightCount(pk, amount, pending)
                 + (IF Idle /\ ClaimStarted(pk, amount)' THEN 1 ELSE 0)
                 - (IF Idle /\ ClaimSettled(pk, amount)' THEN 1 ELSE 0)]_vars
    /\ \A pk \in PublicKeys, amount \in 1..MaxEscrow :
          ClaimStarted(pk, amount) ~> ClaimSettled(pk, amount)

\* The callback has run and no claim on the credential is in flight any more.
C17_Witness ==
    /\ \E amount \in 1..MaxEscrow : ClaimSettled(Signer, amount)
    /\ \A e \in InFlight : e.signer_pk # Signer
    /\ Signer \in DOMAIN keys

\* C18: no index in sender_red_info holds the same envelope key twice.
C18_IndexHasNoDuplicates ==
    \A pk \in DOMAIN sender_red_info :
        \A i, j \in 1..Len(sender_red_info[pk]) :
            i # j => sender_red_info[pk][i] # sender_red_info[pk][j]

\* The value held for the claimants of credential pk: its escrow balance plus the
\* amounts of the claims on it that are in flight.
HeldFor(pk, accts, bag) ==
    LET flying == {e \in BagToSet(bag) : IsClaimReceipt(e) /\ e.signer_pk = pk}
    IN  unwrap_or(MapGet(accts, pk), 0)
        + SumOver([e \in flying |-> e.promise.amount * bag[e]], flying)

RECURSIVE Transferred(_)
Transferred(promises) ==
    IF promises = <<>> THEN 0
    ELSE (IF Head(promises).kind = "transfer" THEN Head(promises).amount ELSE 0)
         + Transferred(Tail(promises))

\* What the call recorded in c credited to pk: the deposit of a send less the fee.
CreditedBy(c, pk) ==
    IF c.op = "send" /\ c.ok /\ c.arg = pk
    THEN c.ctx.attached_deposit - ACCESS_KEY_ALLOWANCE ELSE 0

\* What the call recorded in c paid out of pk's value: the transfer of a claim, or
\* the transfer to the account whose creation the host reports as successful.
PaidBy(c, pk) ==
    IF c.op = "claim" /\ c.ok /\ c.ctx.signer_account_pk = pk
    THEN Transferred(c.promises)
    ELSE IF c.op = "on_account_created_and_claimed" /\ c.receipt # NoReceipt
            /\ c.receipt.signer_pk = pk /\ c.ctx.promise_results = <<"Successful">>
    THEN c.receipt.promise.amount
    ELSE 0

\* C19: for every credential, the total credited by sends equals its escrow balance
\* plus the amounts of its claims in flight plus the amounts paid out.  All are zero
\* initially, so the equation holds in every state exactly when every step changes
\* the value held for the credential by what it credits less what it pays out.
C19_ValueConserved ==
    [][\A pk \in PublicKeys :
          HeldFor(pk, accounts', pending') =
              HeldFor(pk, accounts, pending)
              + (IF Idle /\ ~Idle' THEN CreditedBy(last', pk) - PaidBy(last', pk) ELSE 0)]_vars

\* C20: a credential that holds an escrow balance, with no claim on it in flight
\* (and the key of its send already added), is an access key of the contract
\* account; and no call deletes the key of a credential that holds a balance.
C20_NoStrandedEscrow ==
    /\ \A pk \in DOMAIN accounts :
          (/\ \A e \in InFlight : e.signer_pk # pk
           /\ \A e \in BagToSet(pending) :
                 ~(e.promise.kind = "add_access_key" /\ e.promise.public_key = pk))
              => pk \in DOMAIN keys
    /\ \A i \in 1..Len(last.promises) :
          last.promises[i].kind = "delete_key"
              => last.promises[i].public_key \notin DOMAIN accounts

====
